---- MODULE Spec2Model ----
(***************************************************************************)
(* Model of src/main.js: an Express service answering ten GET lookups      *)
(* against two SQLite handles (pbpDb, scheduleDb), with the SIGINT handler *)
(* that closes both handles and exits.                                     *)
(*                                                                         *)
(* The program's state is the two handles (open status, close requests,    *)
(* close callbacks run), the process (running or exited), and the requests *)
(* being served (validated, query in flight, answered).  The SQLite driver *)
(* and the store files are the environment: the content of each store is   *)
(* chosen in Init and never written, and every driver callback is an       *)
(* action of its own, so that callbacks interleave freely.                 *)
(***************************************************************************)
EXTENDS Naturals, Sequences, FiniteSets

VARIABLES store, openStatus, closeRequested, closeDone, signals, exited,
          registered, req

vars == <<store, openStatus, closeRequested, closeDone, signals, exited,
          registered, req>>

(***************************************************************************)
(* Bounds of the model.                                                    *)
(***************************************************************************)
MaxReq == 1
MaxSignals == 2

Reqs == 1..MaxReq

(***************************************************************************)
(* The two handles and the ten routes.                                     *)
(***************************************************************************)
Handles == {"pbpDb", "scheduleDb"}

EventRoutes ==
  {"/plays", "/plays/:game_id", "/plays/date/:game_date",
   "/plays/date/:game_date/game/:game_id"}

ScheduleRoutes ==
  {"/games", "/games/:id", "/games/home/:name", "/games/away/:name",
   "/games/status/:status", "/games/date/:date"}

Routes == EventRoutes \cup ScheduleRoutes

(***************************************************************************)
(* Strings that the code inspects character by character (the date path    *)
(* value, the stored date) are sequences of one-character strings.         *)
(***************************************************************************)
Digits == {"0", "1", "2", "3", "4", "5", "6", "7", "8", "9"}

Date0514 == <<"2", "0", "2", "4", "-", "0", "5", "-", "1", "4">>
Date0601 == <<"2", "0", "2", "4", "-", "0", "6", "-", "0", "1">>
DateUnpadded == <<"2", "0", "2", "4", "-", "5", "-", "1">>
DateTooLong == <<"2", "0", "2", "4", "-", "0", "5", "-", "1", "4", "0">>
Stamp0514 == Date0514 \o <<"T", "2", "3", ":", "0", "0", "Z">>
Stamp0515 == <<"2", "0", "2", "4", "-", "0", "5", "-", "1", "5">>
               \o <<"T", "1", "9", ":", "0", "0", "Z">>

(***************************************************************************)
(* Store contents.  A store is the sequence of its rows in rowid order.    *)
(***************************************************************************)
PbpSeed ==
  << [game_id |-> "401620229", game_date |-> "2024-05-14", play |-> "tipoff"],
     [game_id |-> "401620229", game_date |-> "2024-05-14", play |-> "layup"],
     [game_id |-> "401620230", game_date |-> "2024-05-15", play |-> "tipoff"] >>

ScheduleSeed ==
  << [id |-> "401620229", home_short_display_name |-> "Aces",
      away_short_display_name |-> "Mercury",
      status_type_name |-> "STATUS_FINAL", date |-> Stamp0514],
     [id |-> "401620230", home_short_display_name |-> "Liberty",
      away_short_display_name |-> "Aces",
      status_type_name |-> "STATUS_SCHEDULED", date |-> Stamp0515] >>

Stores ==
  { [pbpDb |-> p, scheduleDb |-> s] : p \in {<<>>, PbpSeed},
                                      s \in {<<>>, ScheduleSeed} }

(***************************************************************************)
(* Requests the router can hand to a handler: a route and req.params.      *)
(* Express matches a path parameter against one or more characters, so no  *)
(* handler ever sees an empty path value.                                  *)
(***************************************************************************)
NoParams == [none |-> "none"]

Inputs ==
  { [route |-> "/plays", params |-> NoParams] }
  \cup { [route |-> "/plays/:game_id", params |-> [game_id |-> g]] :
           g \in {"401620229", "999"} }
  \cup { [route |-> "/plays/date/:game_date", params |-> [game_date |-> d]] :
           d \in {"2024-05-14", "2024-01-01"} }
  \cup { [route |-> "/plays/date/:game_date/game/:game_id",
          params |-> [game_date |-> d, game_id |-> g]] :
           d \in {"2024-05-14", "2024-05-15"},
           g \in {"401620229", "401620230"} }
  \cup { [route |-> "/games", params |-> NoParams] }
  \cup { [route |-> "/games/:id", params |-> [id |-> i]] :
           i \in {"401620230", "999"} }
  \cup { [route |-> "/games/home/:name", params |-> [name |-> n]] :
           n \in {"Aces", "Sky"} }
  \cup { [route |-> "/games/away/:name", params |-> [name |-> n]] :
           n \in {"Aces", "Sky"} }
  \cup { [route |-> "/games/status/:status", params |-> [status |-> s]] :
           s \in {"STATUS_FINAL", "STATUS_SCHEDULED", "STATUS_LIVE"} }
  \cup { [route |-> "/games/date/:date", params |-> [date |-> d]] :
           d \in {Date0514, Date0601, DateUnpadded, DateTooLong} }

(***************************************************************************)
(* Responses and log lines.  A JSON body is a record whose fields are the  *)
(* fields of the JSON object; res.json(rows) on the event routes sends a   *)
(* bare array, written [array |-> rows].                                   *)
(***************************************************************************)
Send(status, body) == [status |-> status, body |-> body]

Result(sends, logs) == [sends |-> sends, logs |-> logs]

Falsy(v) == v = ""

validStatuses == <<"STATUS_FINAL", "STATUS_SCHEDULED">>

Includes(list, v) == \E i \in 1..Len(list) : list[i] = v

\* Variant of DatePattern without the closing anchor: /^\d{4}-\d{2}-\d{2}/
DatePatternUnanchored(s) ==
  /\ Len(s) >= 10
  /\ \A i \in 1..10 :
       IF i \in {5, 8} THEN s[i] = "-" ELSE s[i] \in Digits

\* /^\d{4}-\d{2}-\d{2}$/.test(date)
DatePattern(s) ==
  /\ Len(s) = 10
  /\ \A i \in 1..Len(s) :
       IF i \in {5, 8} THEN s[i] = "-" ELSE s[i] \in Digits

(***************************************************************************)
(* The synchronous head of each handler: the responses it sends before any *)
(* query (none when validation passes).                                    *)
(***************************************************************************)
Validate(route, p) ==
  CASE route = "/plays/:game_id" ->
         IF Falsy(p.game_id)
           THEN <<Send(400, [error |-> "Game ID is required"])>>
           ELSE <<>>
    [] route = "/plays/date/:game_date" ->
         IF Falsy(p.game_date)
           THEN <<Send(400, [error |-> "Game date is required"])>>
           ELSE <<>>
    [] route = "/plays/date/:game_date/game/:game_id" ->
         IF Falsy(p.game_date) \/ Falsy(p.game_id)
           THEN <<Send(400, [error |-> "Both game date and game ID are required"])>>
           ELSE <<>>
    [] route = "/games/status/:status" ->
         IF ~Includes(validStatuses, p.status)
           THEN <<Send(400, [error |-> "Invalid status type"])>>
           ELSE <<>>
    [] route = "/games/date/:date" ->
         IF ~DatePattern(p.date)
           THEN <<Send(400, [error |-> "Invalid date format. Use YYYY-MM-DD"])>>
           ELSE <<>>
    [] OTHER -> <<>>

(***************************************************************************)
(* The call queryDatabase(db, query, params) each handler makes.  The SQL  *)
(* text is a sequence of fragments, so that a text built by concatenation  *)
(* differs from the literal.                                               *)
(***************************************************************************)
\* Variant of Call that writes the values into the text.
CallInline(db, sql, params) == [db |-> db, sql |-> sql \o params, params |-> <<>>]

\* queryDatabase(db, query, params) hands text and values to db.all apart.
Call(db, sql, params) == [db |-> db, sql |-> sql, params |-> params]

Query(route, p) ==
  CASE route = "/plays" ->
         Call("pbpDb", <<"SELECT * FROM wnba_pbp">>, <<>>)
    [] route = "/plays/:game_id" ->
         Call("pbpDb", <<"SELECT * FROM wnba_pbp WHERE game_id = ?">>,
              <<p.game_id>>)
    [] route = "/plays/date/:game_date" ->
         Call("pbpDb", <<"SELECT * FROM wnba_pbp WHERE game_date = ?">>,
              <<p.game_date>>)
    [] route = "/plays/date/:game_date/game/:game_id" ->
         Call("pbpDb",
              <<"SELECT * FROM wnba_pbp WHERE game_date = ? AND game_id = ?">>,
              <<p.game_date, p.game_id>>)
    [] route = "/games" ->
         Call("scheduleDb", <<"SELECT * FROM wnba_schedule">>, <<>>)
    [] route = "/games/:id" ->
         Call("scheduleDb", <<"SELECT * FROM wnba_schedule WHERE id = ?">>,
              <<p.id>>)
    [] route = "/games/home/:name" ->
         Call("scheduleDb",
              <<"SELECT * FROM wnba_schedule WHERE home_short_display_name = ?">>,
              <<p.name>>)
    [] route = "/games/away/:name" ->
         Call("scheduleDb",
              <<"SELECT * FROM wnba_schedule WHERE away_short_display_name = ?">>,
              <<p.name>>)
    [] route = "/games/status/:status" ->
         Call("scheduleDb",
              <<"SELECT * FROM wnba_schedule WHERE status_type_name = ?">>,
              <<p.status>>)
    [] route = "/games/date/:date" ->
         Call("scheduleDb",
              <<"SELECT * FROM wnba_schedule WHERE strftime('%Y-%m-%d', date) = ?">>,
              <<p.date>>)

(***************************************************************************)
(* What each handler does with the rows its query resolved to.             *)
(***************************************************************************)
\* Variant of RowsOrNotFound without the rows.length === 0 test.
RowsAlways(rows, message) ==
  Result(<<Send(200, [array |-> rows])>>, <<>>)

\* if (rows.length === 0) return res.status(404).json(...); res.json(rows)
RowsOrNotFound(rows, message) ==
  IF Len(rows) = 0
    THEN Result(<<Send(404, [error |-> message])>>, <<>>)
    ELSE Result(<<Send(200, [array |-> rows])>>, <<>>)

\* Variant of Success that treats an empty result as the event routes do.
SuccessOrNotFound(rows) ==
  IF Len(rows) = 0
    THEN Result(<<Send(404, [error |-> "No records found"])>>, <<>>)
    ELSE Result(<<Send(200, [message |-> "success", data |-> rows])>>, <<>>)

\* res.json({ message: "success", data: rows })
Success(rows) ==
  Result(<<Send(200, [message |-> "success", data |-> rows])>>, <<>>)

OnRows(route, rows) ==
  CASE route = "/plays" ->
         Result(<<Send(200, [array |-> rows])>>, <<>>)
    [] route = "/plays/:game_id" ->
         RowsOrNotFound(rows, "No records found for the specified game ID")
    [] route = "/plays/date/:game_date" ->
         RowsOrNotFound(rows, "No records found for the specified game date")
    [] route = "/plays/date/:game_date/game/:game_id" ->
         RowsOrNotFound(rows, "No records found for the specified game date and game ID")
    [] route \in ScheduleRoutes ->
         Success(rows)

(***************************************************************************)
(* What each handler does when its query rejected with err.                *)
(***************************************************************************)
\* Variant of InternalError that answers without writing the log line.
InternalErrorUnlogged(line, message) ==
  Result(<<Send(500, [error |-> "Internal Server Error", details |-> message])>>,
         <<>>)

\* console.error(line, err.message); res.status(500).json({ error, details })
InternalError(line, message) ==
  Result(<<Send(500, [error |-> "Internal Server Error", details |-> message])>>,
         <<line>>)

\* Variant of BadRequest that answers as the event routes do.
BadRequestAsInternal(message) ==
  Result(<<Send(500, [error |-> "Internal Server Error", details |-> message])>>,
         <<>>)

\* res.status(400).json({ "error": err.message })
BadRequest(message) ==
  Result(<<Send(400, [error |-> message])>>, <<>>)

OnError(route, message) ==
  CASE route = "/plays" ->
         InternalError("Error fetching all plays:", message)
    [] route = "/plays/:game_id" ->
         InternalError("Error fetching plays by game ID:", message)
    [] route = "/plays/date/:game_date" ->
         InternalError("Error fetching plays by game date:", message)
    [] route = "/plays/date/:game_date/game/:game_id" ->
         InternalError("Error fetching plays by game date and game ID:", message)
    [] route \in ScheduleRoutes ->
         BadRequest(message)

(***************************************************************************)
(* The driver's evaluation of a statement against the rows of a store:     *)
(* each "?" is bound to the positional parameter in its place.  A text the *)
(* driver does not recognise is a statement error.                         *)
(***************************************************************************)
Strftime(stamp) == SubSeq(stamp, 1, 10)

Resolved(rows) == [ok |-> TRUE, rows |-> rows]

Execute(q, rows) ==
  CASE q.sql \in {<<"SELECT * FROM wnba_pbp">>, <<"SELECT * FROM wnba_schedule">>} ->
         Resolved(rows)
    [] q.sql = <<"SELECT * FROM wnba_pbp WHERE game_id = ?">> ->
         Resolved(SelectSeq(rows, LAMBDA row : row.game_id = q.params[1]))
    [] q.sql = <<"SELECT * FROM wnba_pbp WHERE game_date = ?">> ->
         Resolved(SelectSeq(rows, LAMBDA row : row.game_date = q.params[1]))
    [] q.sql = <<"SELECT * FROM wnba_pbp WHERE game_date = ? AND game_id = ?">> ->
         Resolved(SelectSeq(rows, LAMBDA row : /\ row.game_date = q.params[1]
                                               /\ row.game_id = q.params[2]))
    [] q.sql = <<"SELECT * FROM wnba_schedule WHERE id = ?">> ->
         Resolved(SelectSeq(rows, LAMBDA row : row.id = q.params[1]))
    [] q.sql = <<"SELECT * FROM wnba_schedule WHERE home_short_display_name = ?">> ->
         Resolved(SelectSeq(rows, LAMBDA row : row.home_short_display_name = q.params[1]))
    [] q.sql = <<"SELECT * FROM wnba_schedule WHERE away_short_display_name = ?">> ->
         Resolved(SelectSeq(rows, LAMBDA row : row.away_short_display_name = q.params[1]))
    [] q.sql = <<"SELECT * FROM wnba_schedule WHERE status_type_name = ?">> ->
         Resolved(SelectSeq(rows, LAMBDA row : row.status_type_name = q.params[1]))
    [] q.sql = <<"SELECT * FROM wnba_schedule WHERE strftime('%Y-%m-%d', date) = ?">> ->
         Resolved(SelectSeq(rows, LAMBDA row : Strftime(row.date) = q.params[1]))
    [] OTHER -> [ok |-> FALSE, rows |-> <<>>]

(***************************************************************************)
(* State of one request: not yet received ("idle"), its query in flight    *)
(* ("pending"), or its handler finished ("done").  queries is every call   *)
(* the handler made to queryDatabase, sends every res.json it made, logs   *)
(* every console line it wrote.                                            *)
(***************************************************************************)
Idle ==
  [phase |-> "idle", route |-> "none", params |-> NoParams, queries |-> <<>>,
   outcome |-> "none", rows |-> <<>>, sends |-> <<>>, logs |-> <<>>]

Init ==
  /\ store \in Stores
  /\ openStatus = [h \in Handles |-> "opening"]
  /\ closeRequested = [h \in Handles |-> 0]
  /\ closeDone = [h \in Handles |-> 0]
  /\ signals = 0
  /\ exited = FALSE
  /\ registered = Routes
  /\ req = [r \in Reqs |-> Idle]

(***************************************************************************)
(* Variant of OpenCallback that ends the process when the open failed.     *)
(***************************************************************************)
OpenCallbackFatal(h, err) ==
  /\ ~exited
  /\ openStatus[h] = "opening"
  /\ openStatus' = [openStatus EXCEPT ![h] = IF err THEN "failed" ELSE "open"]
  /\ exited' = err
  /\ UNCHANGED <<store, closeRequested, closeDone, signals, registered, req>>

(***************************************************************************)
(* The callback of new sqlite3.Database(...): it only logs.                *)
(***************************************************************************)
OpenCallback(h, err) ==
  /\ ~exited
  /\ openStatus[h] = "opening"
  /\ openStatus' = [openStatus EXCEPT ![h] = IF err THEN "failed" ELSE "open"]
  /\ UNCHANGED <<store, closeRequested, closeDone, signals, exited, registered, req>>

(***************************************************************************)
(* A request matched by a route: the handler runs up to its first await    *)
(* (or .then): it answers 400 at once, or calls queryDatabase.  Requests   *)
(* are numbered in their order of arrival.                                 *)
(***************************************************************************)
Handle(r, in) ==
  /\ ~exited
  /\ in.route \in registered
  /\ req[r].phase = "idle"
  /\ \A k \in Reqs : k < r => req[k].phase # "idle"
  /\ LET early == Validate(in.route, in.params) IN
       req' = [req EXCEPT ![r] =
                 IF early # <<>>
                   THEN [Idle EXCEPT !.phase = "done", !.route = in.route,
                                     !.params = in.params, !.sends = early]
                   ELSE [Idle EXCEPT !.phase = "pending", !.route = in.route,
                                     !.params = in.params,
                                     !.queries = <<Query(in.route, in.params)>>]]
  /\ UNCHANGED <<store, openStatus, closeRequested, closeDone, signals, exited, registered>>

(***************************************************************************)
(* The callback of db.all: queryDatabase rejects with err or resolves with *)
(* the rows, and the handler's continuation runs.  The driver starts work  *)
(* on a handle once its open attempt has finished; on a handle that failed *)
(* to open or has been closed the statement fails, and on a healthy handle *)
(* it may still fail (err chosen by the environment).                      *)
(***************************************************************************)
DbAllCallback(r, err) ==
  /\ ~exited
  /\ req[r].phase = "pending"
  /\ LET q == req[r].queries[1]
         ev == Execute(q, store[q.db])
         res == IF err THEN OnError(req[r].route, "SQLITE_ERROR")
                       ELSE OnRows(req[r].route, ev.rows)
     IN /\ openStatus[q.db] # "opening"
        /\ ~err => /\ openStatus[q.db] = "open"
                   /\ closeDone[q.db] = 0
                   /\ ev.ok
        /\ req' = [req EXCEPT ![r] =
                     [@ EXCEPT !.phase = "done",
                               !.outcome = IF err THEN "err" ELSE "rows",
                               !.rows = IF err THEN <<>> ELSE ev.rows,
                               !.sends = res.sends,
                               !.logs = res.logs]]
  /\ UNCHANGED <<store, openStatus, closeRequested, closeDone, signals, exited, registered>>

(***************************************************************************)
(* The SIGINT listener: it asks both handles to close.  It is registered   *)
(* with process.on, so it runs on every SIGINT the process receives.       *)
(***************************************************************************)
Sigint ==
  /\ ~exited
  /\ signals < MaxSignals
  /\ signals' = signals + 1
  /\ closeRequested' = [h \in Handles |-> closeRequested[h] + 1]
  /\ UNCHANGED <<store, openStatus, closeDone, exited, registered, req>>

(***************************************************************************)
(* The callback of a close: it logs, and the one of scheduleDb.close then  *)
(* calls process.exit(0).                                                  *)
(***************************************************************************)
CloseCallback(h) ==
  /\ ~exited
  /\ openStatus[h] # "opening"
  /\ closeDone[h] < closeRequested[h]
  /\ closeDone' = [closeDone EXCEPT ![h] = @ + 1]
  /\ exited' = (h = "scheduleDb")
  /\ UNCHANGED <<store, openStatus, closeRequested, signals, registered, req>>

Next ==
  \/ \E h \in Handles, err \in BOOLEAN : OpenCallback(h, err)
  \/ \E r \in Reqs, in \in Inputs : Handle(r, in)
  \/ \E r \in Reqs, err \in BOOLEAN : DbAllCallback(r, err)
  \/ Sigint
  \/ \E h \in Handles : CloseCallback(h)

Spec == Init /\ [][Next]_vars

(***************************************************************************)
(* Vocabulary of the properties.                                           *)
(***************************************************************************)
FilteredEventRoutes == EventRoutes \ {"/plays"}

Other(h) == CHOOSE g \in Handles : g # h

StoreOf(route) == IF route \in EventRoutes THEN "pbpDb" ELSE "scheduleDb"

Done(r) == req[r].phase = "done"

Succeeded(r) == Done(r) /\ req[r].outcome = "rows"

ExecutionFailed(r) == Done(r) /\ req[r].outcome = "err"

\* The day of a stored time stamp equals the day asked for.
OnDay(stamp, day) ==
  /\ Len(day) = 10
  /\ Len(stamp) >= 10
  /\ \A i \in 1..10 : stamp[i] = day[i]

\* The stored rows a lookup asks for: the rows of the route's store, in
\* stored order, that match the path values.
Matching(route, p) ==
  CASE route = "/plays" -> store.pbpDb
    [] route = "/plays/:game_id" ->
         SelectSeq(store.pbpDb, LAMBDA row : row.game_id = p.game_id)
    [] route = "/plays/date/:game_date" ->
         SelectSeq(store.pbpDb, LAMBDA row : row.game_date = p.game_date)
    [] route = "/plays/date/:game_date/game/:game_id" ->
         SelectSeq(store.pbpDb, LAMBDA row : /\ row.game_id = p.game_id
                                             /\ row.game_date = p.game_date)
    [] route = "/games" -> store.scheduleDb
    [] route = "/games/:id" ->
         SelectSeq(store.scheduleDb, LAMBDA row : row.id = p.id)
    [] route = "/games/home/:name" ->
         SelectSeq(store.scheduleDb, LAMBDA row : row.home_short_display_name = p.name)
    [] route = "/games/away/:name" ->
         SelectSeq(store.scheduleDb, LAMBDA row : row.away_short_display_name = p.name)
    [] route = "/games/status/:status" ->
         SelectSeq(store.scheduleDb, LAMBDA row : row.status_type_name = p.status)
    [] route = "/games/date/:date" ->
         SelectSeq(store.scheduleDb, LAMBDA row : OnDay(row.date, p.date))

\* The answer of a lookup whose query succeeded: 404 for a filtered event
\* lookup without rows, otherwise 200 with the rows (bare on the event
\* routes, in the success envelope on the schedule routes).
AnsweredAsSpecified(r) ==
  LET m == Matching(req[r].route, req[r].params)
      sends == req[r].sends
  IN IF req[r].route \in ScheduleRoutes
       THEN sends = <<[status |-> 200, body |-> [message |-> "success", data |-> m]]>>
       ELSE IF m # <<>> \/ req[r].route = "/plays"
         THEN sends = <<[status |-> 200, body |-> [array |-> m]]>>
         ELSE /\ Len(sends) = 1
              /\ sends[1].status = 404
              /\ "error" \in DOMAIN sends[1].body

(***************************************************************************)
(* C1: once the process has exited on SIGINT, the close callbacks of BOTH  *)
(* stores have run.  The code exits in the callback of scheduleDb.close    *)
(* alone, so this fails when that callback runs first.                     *)
(***************************************************************************)
C1_ExitAfterBothCloses ==
  exited => \A h \in Handles : closeDone[h] >= 1

(***************************************************************************)
(* C2: a filtered event lookup whose query succeeded answers 200 with      *)
(* exactly the stored rows matching its path values (both, for the         *)
(* composite lookup) if there is one, and 404 with an error field if not.  *)
(***************************************************************************)
C2_FilteredLookup ==
  \A r \in Reqs :
    (Succeeded(r) /\ req[r].route \in FilteredEventRoutes) => AnsweredAsSpecified(r)

\* A composite lookup whose date and game id each match stored rows, but
\* no row matches both, answered 404.
C2_Witness ==
  \E r \in Reqs :
    /\ Succeeded(r)
    /\ req[r].route = "/plays/date/:game_date/game/:game_id"
    /\ \E i \in 1..Len(store.pbpDb) : store.pbpDb[i].game_id = req[r].params.game_id
    /\ \E i \in 1..Len(store.pbpDb) : store.pbpDb[i].game_date = req[r].params.game_date
    /\ Matching(req[r].route, req[r].params) = <<>>
    /\ req[r].sends[1].status = 404

(***************************************************************************)
(* C3: on /plays and on every schedule lookup, a query that succeeded with *)
(* no row is answered 200 with an empty array ([] or data: []), never 404. *)
(***************************************************************************)
C3_EmptyIsSuccess ==
  \A r \in Reqs :
    ( /\ Succeeded(r)
      /\ req[r].route \in {"/plays"} \cup ScheduleRoutes
      /\ Matching(req[r].route, req[r].params) = <<>> )
    => req[r].sends =
         <<[status |-> 200,
            body |-> IF req[r].route = "/plays"
                       THEN [array |-> <<>>]
                       ELSE [message |-> "success", data |-> <<>>]]>>

\* /games/:id for an id that a non-empty schedule store does not hold.
C3_Witness ==
  \E r \in Reqs :
    /\ Succeeded(r)
    /\ req[r].route = "/games/:id"
    /\ store.scheduleDb # <<>>
    /\ req[r].sends = <<[status |-> 200, body |-> [message |-> "success", data |-> <<>>]]>>

(***************************************************************************)
(* C4: on /games/status/:status and /games/date/:date, a value failing     *)
(* validation is answered 400 and the request never issues a query; a      *)
(* value passing it issues exactly one query, against the schedule store.  *)
(***************************************************************************)
IsYearMonthDay(s) ==
  /\ Len(s) = 10
  /\ s[5] = "-"
  /\ s[8] = "-"
  /\ \A i \in {1, 2, 3, 4, 6, 7, 9, 10} : s[i] \in Digits

PassesValidation(route, p) ==
  IF route = "/games/status/:status"
    THEN p.status \in {"STATUS_FINAL", "STATUS_SCHEDULED"}
    ELSE IsYearMonthDay(p.date)

C4_ValidationBeforeQuery ==
  \A r \in Reqs :
    req[r].route \in {"/games/status/:status", "/games/date/:date"} =>
      IF PassesValidation(req[r].route, req[r].params)
        THEN /\ Len(req[r].queries) = 1
             /\ req[r].queries[1].db = "scheduleDb"
        ELSE /\ req[r].queries = <<>>
             /\ Done(r)
             /\ Len(req[r].sends) = 1
             /\ req[r].sends[1].status = 400

\* The unpadded date 2024-5-1 answered 400 without a query.
C4_Witness ==
  \E r \in Reqs :
    /\ Done(r)
    /\ req[r].route = "/games/date/:date"
    /\ req[r].params.date = DateUnpadded
    /\ req[r].queries = <<>>
    /\ req[r].sends[1].status = 400

(***************************************************************************)
(* C5: a query that failed in the store is answered 500 with exactly the   *)
(* fields error and details on an event route, and 400 with exactly the    *)
(* field error on a schedule route (so never 200 or 404, and no rows).     *)
(***************************************************************************)
C5_ExecutionFailure ==
  \A r \in Reqs :
    ExecutionFailed(r) =>
      /\ Len(req[r].sends) = 1
      /\ IF req[r].route \in EventRoutes
           THEN /\ req[r].sends[1].status = 500
                /\ DOMAIN req[r].sends[1].body = {"error", "details"}
           ELSE /\ req[r].sends[1].status = 400
                /\ DOMAIN req[r].sends[1].body = {"error"}

\* A schedule lookup whose query failed on a store that opened.
C5_Witness ==
  \E r \in Reqs :
    /\ ExecutionFailed(r)
    /\ req[r].route \in ScheduleRoutes
    /\ openStatus.scheduleDb = "open"
    /\ req[r].sends[1].status = 400

(***************************************************************************)
(* C6: the stores fail independently.  When one store failed to open and   *)
(* no SIGINT was received, the process runs with all ten routes            *)
(* registered; every query against the failed store fails and is answered  *)
(* 500 (event routes) or 400 (schedule routes); and a lookup against the   *)
(* other, open store whose query succeeded is answered as specified.       *)
(***************************************************************************)
C6_IndependentStores ==
  \A h \in Handles :
    openStatus[h] = "failed" =>
      /\ signals = 0 => (~exited /\ registered = Routes)
      /\ \A r \in Reqs :
           (Done(r) /\ req[r].queries # <<>> /\ req[r].queries[1].db = h) =>
             /\ req[r].outcome = "err"
             /\ Len(req[r].sends) = 1
             /\ req[r].sends[1].status = IF h = "pbpDb" THEN 500 ELSE 400
      /\ \A r \in Reqs :
           ( /\ Succeeded(r)
             /\ req[r].queries[1].db = Other(h)
             /\ openStatus[Other(h)] = "open" ) => AnsweredAsSpecified(r)

\* The event store failed to open and a schedule lookup was answered 200
\* with stored rows.
C6_Witness ==
  /\ openStatus.pbpDb = "failed"
  /\ openStatus.scheduleDb = "open"
  /\ ~exited
  /\ \E r \in Reqs :
       /\ Succeeded(r)
       /\ req[r].route \in ScheduleRoutes
       /\ req[r].sends[1].status = 200
       /\ req[r].sends[1].body.data # <<>>

(***************************************************************************)
(* C7 as stated: every failure path (validation failure, not found,        *)
(* execution failure) ends in exactly one JSON error response and exactly  *)
(* one log line.                                                           *)
(***************************************************************************)
ValidationFailed(r) == Done(r) /\ req[r].queries = <<>>

NotFound(r) ==
  /\ Succeeded(r)
  /\ req[r].route \in FilteredEventRoutes
  /\ req[r].rows = <<>>

FailurePath(r) == ValidationFailed(r) \/ NotFound(r) \/ ExecutionFailed(r)

OneErrorResponse(r) ==
  /\ Len(req[r].sends) = 1
  /\ req[r].sends[1].status \in {400, 404, 500}
  /\ "error" \in DOMAIN req[r].sends[1].body

C8_ClosedOnce ==
  \A h \in Handles :
    /\ closeRequested[h] <= 1
    /\ closeRequested[h] > 0 => signals > 0

(***************************************************************************)
(* C9: the text of every statement handed to the store is the text the     *)
(* route hands over for any other path values, two requests of one route   *)
(* hand over the same text, and the path values are the positional         *)
(* parameters, in the route's binding order (game_date before game_id).    *)
(***************************************************************************)
BindingOrder(route, p) ==
  CASE route \in {"/plays", "/games"} -> <<>>
    [] route = "/plays/:game_id" -> <<p.game_id>>
    [] route = "/plays/date/:game_date" -> <<p.game_date>>
    [] route = "/plays/date/:game_date/game/:game_id" -> <<p.game_date, p.game_id>>
    [] route = "/games/:id" -> <<p.id>>
    [] route \in {"/games/home/:name", "/games/away/:name"} -> <<p.name>>
    [] route = "/games/status/:status" -> <<p.status>>
    [] route = "/games/date/:date" -> <<p.date>>

C9_FixedStatementText ==
  /\ \A r \in Reqs :
       req[r].queries # <<>> =>
         /\ Len(req[r].queries) = 1
         /\ \A in \in Inputs :
              in.route = req[r].route =>
                Query(in.route, in.params).sql = req[r].queries[1].sql
         /\ req[r].queries[1].params = BindingOrder(req[r].route, req[r].params)
  /\ \A r1, r2 \in Reqs :
       (req[r1].queries # <<>> /\ req[r2].queries # <<>> /\ req[r1].route = req[r2].route)
         => req[r1].queries[1].sql = req[r2].queries[1].sql

\* A composite lookup whose two path values differ, its query issued.
C9_Witness ==
  \E r \in Reqs :
    /\ req[r].route = "/plays/date/:game_date/game/:game_id"
    /\ req[r].queries # <<>>
    /\ req[r].queries[1].params = <<"2024-05-15", "401620229">>

(***************************************************************************)
(* C10: every request gets at most one response, and no matched request is *)
(* left without one: when the process has exited, no request is still      *)
(* waiting for its query.  The exit in the close callback of scheduleDb    *)
(* does not wait for requests in flight.                                   *)
(***************************************************************************)
C10_EveryRequestAnsweredOnce ==
  \A r \in Reqs :
    /\ Len(req[r].sends) <= 1
    /\ exited => (req[r].phase # "idle" => Len(req[r].sends) = 1)

====
